---- MODULE Spec2Model ----
(***************************************************************************)
(* Graham.py: a batch script that scrapes price, EPS, growth and bond      *)
(* yield per ticker, parses them into decimal.Decimal values, applies the  *)
(* Graham formula and prints a Buy / Don't Buy line per ticker followed by *)
(* a summary of the tickers worth buying.                                  *)
(*                                                                         *)
(* Texts are sequences of one-character strings.  A Decimal is the record  *)
(* [sign, dig, exp] of decimal.Decimal.as_tuple(): the value is            *)
(* (-1)^sign * dig * 10^exp, dig a digit sequence without leading zeros.   *)
(* Only finite decimals written without an exponent are modelled.          *)
(***************************************************************************)
EXTENDS Integers, Sequences, FiniteSets, TLC

\* Python's None.
None == [kind |-> "None"]

\* The precision of decimal's default context (getcontext().prec).
Prec == 28

-----------------------------------------------------------------------------
(* Digit sequences (the coefficient of a Decimal).  The arithmetic is       *)
(* written as functions: a function is applied to values, so an argument    *)
(* is computed once however often the body reads it.                        *)

DigitSeqs == Seq(0..9)

DigitChars == <<"0", "1", "2", "3", "4", "5", "6", "7", "8", "9">>

IsDigit(ch) == \E i \in 1..10 : DigitChars[i] = ch

DigitVal(ch) == (CHOOSE i \in 1..10 : DigitChars[i] = ch) - 1

Zeros(n) == [i \in 1..n |-> 0]

\* Index of the first element of ds from i on that is not in skip (Len + 1 if none).
RECURSIVE FirstFrom(_, _, _)
FirstFrom(ds, i, skip) ==
    IF i > Len(ds) THEN i
    ELSE IF ds[i] \in skip THEN FirstFrom(ds, i + 1, skip) ELSE i

\* Index of the last element of ds up to i that is not in skip (0 if none).
RECURSIVE LastUpTo(_, _, _)
LastUpTo(ds, i, skip) ==
    IF i < 1 THEN 0
    ELSE IF ds[i] \in skip THEN LastUpTo(ds, i - 1, skip) ELSE i

\* str(int(digits)): no leading zeros, "0" for zero.
DropLeadingZeros[ds \in DigitSeqs] ==
    IF FirstFrom(ds, 1, {0}) > Len(ds) THEN <<0>>
    ELSE SubSeq(ds, FirstFrom(ds, 1, {0}), Len(ds))

IsZeroDigits(ds) == \A i \in 1..Len(ds) : ds[i] = 0

\* int(str): the integer the first k digits of a short digit sequence denote.
ValUpTo[ds \in DigitSeqs, k \in Nat] ==
    IF k = 0 THEN 0 ELSE 10 * ValUpTo[ds, k - 1] + ds[k]

Val[ds \in DigitSeqs] == ValUpTo[ds, Len(ds)]

\* str(int): the digit sequence of a natural number.
DigitsOf[n \in Nat] == IF n < 10 THEN <<n>> ELSE Append(DigitsOf[n \div 10], n % 10)

\* ds[1..k] * n + c for a digit sequence ds, a natural number n and a carry c
\* (schoolbook, from the right).
MulDigitsCarry[ds \in DigitSeqs, k \in Nat, n \in Nat, c \in Nat] ==
    IF k = 0 THEN (IF c = 0 THEN <<>> ELSE DigitsOf[c])
    ELSE Append(MulDigitsCarry[ds, k - 1, n, (ds[k] * n + c) \div 10], (ds[k] * n + c) % 10)

MulDigits[ds \in DigitSeqs, n \in Nat] == DropLeadingZeros[MulDigitsCarry[ds, Len(ds), n, 0]]

\* ds + 1: the last digit that is not 9 goes up, the 9s after it become 0.
IncDigits[ds \in DigitSeqs] ==
    IF LastUpTo(ds, Len(ds), {9}) = 0 THEN <<1>> \o Zeros(Len(ds))
    ELSE [i \in 1..Len(ds) |->
            IF i < LastUpTo(ds, Len(ds), {9}) THEN ds[i]
            ELSE IF i = LastUpTo(ds, Len(ds), {9}) THEN ds[i] + 1
            ELSE 0]

\* Long division of ds[k..] by n > 0, with the quotient digits q found so far
\* and the remainder r carried in.
LongDivFrom[ds \in DigitSeqs, k \in Nat, n \in Nat, q \in DigitSeqs, r \in Nat] ==
    IF k > Len(ds) THEN [q |-> DropLeadingZeros[q], r |-> r]
    ELSE LongDivFrom[ds, k + 1, n, Append(q, (r * 10 + ds[k]) \div n), (r * 10 + ds[k]) % n]

\* What divmod gives: the quotient's digits and the remainder.
DivMods == [q : DigitSeqs, r : Nat]

\* divmod(ds, n): [q |-> quotient digits, r |-> remainder].
LongDiv[ds \in DigitSeqs, n \in Nat] == LongDivFrom[ds, 1, n, <<>>, 0]

\* -1, 0, 1 as digit sequence a is less than, equal to, greater than b, for
\* sequences of the same length read from position i.
CmpFrom[a \in DigitSeqs, b \in DigitSeqs, i \in Nat] ==
    IF i > Len(a) THEN 0
    ELSE IF a[i] < b[i] THEN -1
    ELSE IF a[i] > b[i] THEN 1
    ELSE CmpFrom[a, b, i + 1]

CmpSameLen[a \in DigitSeqs, b \in DigitSeqs] == CmpFrom[a, b, 1]

-----------------------------------------------------------------------------
(* decimal.Decimal                                                         *)

Decimals == [sign : {0, 1}, dig : DigitSeqs, exp : Int]

Dec(sign, dig, exp) == [sign |-> sign, dig |-> dig, exp |-> exp]

IsZero(d) == IsZeroDigits(d.dig)

\* The end of Decimal._fix: a carry out of the top digit leaves Prec + 1
\* digits, the last one a zero that goes into the exponent.
Carried[sign \in {0, 1}, coeff \in DigitSeqs, exp \in Int] ==
    IF Len(coeff) > Prec THEN Dec(sign, SubSeq(coeff, 1, Prec), exp + 1)
    ELSE Dec(sign, coeff, exp)

\* Context rounding (Decimal._fix, ROUND_HALF_EVEN): a coefficient longer
\* than Prec digits is cut to Prec digits, rounded half to even.
Fix[d \in Decimals] ==
    IF Len(d.dig) <= Prec THEN d
    ELSE LET keep  == SubSeq(d.dig, 1, Prec)
             drop  == SubSeq(d.dig, Prec + 1, Len(d.dig))
             rest  == IsZeroDigits(Tail(drop))
             up    == \/ drop[1] > 5
                      \/ drop[1] = 5 /\ ~rest
                      \/ drop[1] = 5 /\ rest /\ keep[Prec] % 2 = 1
         IN  Carried[d.sign, IF up THEN IncDigits[keep] ELSE keep, d.exp + Len(drop)]

\* Decimal.__mul__: coefficients multiplied, exponents added, then rounded.
\* b's coefficient is short enough to be an integer.
DecMul[a \in Decimals, b \in Decimals] ==
    Fix[Dec((a.sign + b.sign) % 2, MulDigits[a.dig, Val[b.dig]], a.exp + b.exp)]

\* The signed integer coefficient of a short Decimal.
SignedVal(d) == IF d.sign = 1 THEN -Val[d.dig] ELSE Val[d.dig]

Pow10(n) == Val[<<1>> \o Zeros(n)]

FromInt[n \in Int, exp \in Int] ==
    IF n < 0 THEN Dec(1, DigitsOf[-n], exp) ELSE Dec(0, DigitsOf[n], exp)

\* Decimal.__add__ on short coefficients: the operands are brought to the
\* smaller exponent and the coefficients added.
DecAdd[a \in Decimals, b \in Decimals] ==
    LET e == IF a.exp < b.exp THEN a.exp ELSE b.exp
    IN  Fix[FromInt[SignedVal(a) * Pow10(a.exp - e) + SignedVal(b) * Pow10(b.exp - e), e]]

\* Strip trailing zeros of an exact quotient while exp < ideal (the loop of
\* Decimal.__truediv__); k is the number of digits still kept.
TowardIdeal[coeff \in DigitSeqs, k \in Nat, exp \in Int, ideal \in Int] ==
    IF exp < ideal /\ k > 1 /\ coeff[k] = 0
    THEN TowardIdeal[coeff, k - 1, exp + 1, ideal]
    ELSE Dec(0, SubSeq(coeff, 1, k), exp)

\* The second half of Decimal.__truediv__, from divmod's result dm: a sticky
\* last digit when the division is inexact, trailing zeros stripped toward
\* the ideal exponent when it is exact, then the context rounding.
Quotient[sign \in {0, 1}, dm \in DivMods, exp \in Int, ideal \in Int] ==
    IF dm.r # 0
    THEN Fix[Dec(sign, IF dm.q[Len(dm.q)] % 5 = 0 THEN IncDigits[dm.q] ELSE dm.q, exp)]
    ELSE Fix[[TowardIdeal[dm.q, Len(dm.q), exp, ideal] EXCEPT !.sign = sign]]

\* Decimal.__truediv__ for a non-zero divisor b with a short coefficient and
\* a dividend of at most Prec digits: Prec + 1 or Prec + 2 quotient digits by
\* long division of the dividend shifted left.
DecDiv[a \in Decimals, b \in Decimals] ==
    LET shift == Len(b.dig) - Len(a.dig) + Prec + 1
    IN  IF IsZero(a) THEN Dec((a.sign + b.sign) % 2, <<0>>, a.exp - b.exp)
        ELSE Quotient[(a.sign + b.sign) % 2, LongDiv[a.dig \o Zeros(shift), Val[b.dig]],
                      a.exp - b.exp - shift, a.exp - b.exp]

\* Comparison of the absolute values of two Decimals: -1, 0, 1.
CmpAbs[a \in Decimals, b \in Decimals] ==
    IF IsZero(a) /\ IsZero(b) THEN 0
    ELSE IF IsZero(a) THEN -1
    ELSE IF IsZero(b) THEN 1
    ELSE LET la == Len(a.dig) + a.exp
             lb == Len(b.dig) + b.exp
             e  == IF a.exp < b.exp THEN a.exp ELSE b.exp
         IN  IF la < lb THEN -1
             ELSE IF la > lb THEN 1
             ELSE CmpSameLen[a.dig \o Zeros(a.exp - e), b.dig \o Zeros(b.exp - e)]

\* Numeric comparison: -1, 0, 1 as a < b, a = b, a > b (Decimal._cmp).
DecCmp[a \in Decimals, b \in Decimals] ==
    LET sa == IF IsZero(a) THEN 0 ELSE IF a.sign = 1 THEN -1 ELSE 1
        sb == IF IsZero(b) THEN 0 ELSE IF b.sign = 1 THEN -1 ELSE 1
    IN  IF sa < sb THEN -1
        ELSE IF sa > sb THEN 1
        ELSE IF sa = 0 THEN 0
        ELSE IF sa = 1 THEN CmpAbs[a, b]
        ELSE CmpAbs[b, a]

DecLt(a, b) == DecCmp[a, b] = -1
DecLe(a, b) == DecCmp[a, b] <= 0
DecEq(a, b) == DecCmp[a, b] = 0

DecInt(n) == FromInt[n, 0]

-----------------------------------------------------------------------------
(* Texts: str.replace, str.strip, Decimal(str), str(Decimal).              *)

Strings == Seq(STRING)

Whitespace == {" "}

\* str.replace(ch, ''): every occurrence of ch removed.
Remove(text, ch) == SelectSeq(text, LAMBDA c : c # ch)

\* str.strip(chars): leading and trailing characters of the set removed.
StripChars[text \in Strings, chars \in SUBSET STRING] ==
    SubSeq(text, FirstFrom(text, 1, chars), LastUpTo(text, Len(text), chars))

\* The digits and the point of a numeral: at most one point, and a digit
\* first or right after a leading point.  The coefficient is
\* int(intpart + fracpart), the exponent -len(fracpart).  None stands for
\* decimal.InvalidOperation (ConversionSyntax).
Unsigned[sign \in {0, 1}, body \in Strings] ==
    LET dots   == {i \in 1..Len(body) : body[i] = "."}
        ok     == /\ Len(body) > 0
                  /\ \A i \in 1..Len(body) : IsDigit(body[i]) \/ body[i] = "."
                  /\ Cardinality(dots) <= 1
                  /\ \/ IsDigit(body[1])
                     \/ body[1] = "." /\ Len(body) > 1
        dot    == IF dots = {} THEN Len(body) + 1 ELSE CHOOSE i \in dots : TRUE
        int    == SubSeq(body, 1, dot - 1)
        frac   == SubSeq(body, dot + 1, Len(body))
        both   == int \o frac
    IN  IF ~ok THEN None
        ELSE Dec(sign, DropLeadingZeros[[i \in 1..Len(both) |-> DigitVal(both[i])]], -Len(frac))

\* A numeral with its optional sign.
Numeral[s \in Strings] ==
    IF Len(s) > 0 /\ s[1] \in {"-", "+"}
    THEN Unsigned[IF s[1] = "-" THEN 1 ELSE 0, Tail(s)]
    ELSE Unsigned[0, s]

\* Decimal(str): surrounding whitespace is dropped; the rest must be a numeral.
Decimal[text \in Strings] == Numeral[StripChars[text, Whitespace]]

\* str(Decimal) for exp <= 0 and more than -6 digits left of the point (the
\* plain, non-scientific notation of Decimal.__str__).
DecStr[d \in Decimals] ==
    LET chars    == [i \in 1..Len(d.dig) |-> DigitChars[d.dig[i] + 1]]
        dotplace == Len(d.dig) + d.exp
        intpart  == IF dotplace <= 0 THEN <<"0">> ELSE SubSeq(chars, 1, dotplace)
        fracpart == IF d.exp = 0 THEN <<>>
                    ELSE IF dotplace <= 0
                         THEN <<".">> \o [i \in 1..(-dotplace) |-> "0"] \o chars
                    ELSE <<".">> \o SubSeq(chars, dotplace + 1, Len(chars))
    IN  (IF d.sign = 1 THEN <<"-">> ELSE <<>>) \o intpart \o fracpart

-----------------------------------------------------------------------------
(* The Numeric Parser.                                                     *)

\* parse_float without value.replace(',', '').
parse_float_KeepCommas(value) ==
    LET d == Decimal[StripChars[value, {"%"}]]
    IN  IF d = None THEN None ELSE DecDiv[d, DecInt(100)]

\* parse_float: Decimal(value.replace(',', '').strip('%')) / 100, None when
\* the constructor raises InvalidOperation.
parse_float(value) ==
    LET d == Decimal[StripChars[Remove(value, ","), {"%"}]]
    IN  IF d = None THEN None ELSE DecDiv[d, DecInt(100)]

\* parse_stock_price on a str: Decimal(price_str.replace(',', '').strip()).
parse_stock_price(price_str) ==
    Decimal[StripChars[Remove(price_str, ","), Whitespace]]

\* parse_stock_price on a Decimal (main's second call): str() it first.
parse_stock_price_decimal(price) == parse_stock_price(DecStr[price])

-----------------------------------------------------------------------------
(* The Valuation Engine.                                                   *)

seven == DecInt(7)
four_point_four == Dec(0, <<4, 4>>, -1)
one_hundred == DecInt(100)
zero == DecInt(0)

Returned(v, divided) == [kind |-> "return", value |-> v, divided |-> divided]
Raised(exc) == [kind |-> "raise", value |-> None, divided |-> TRUE, exc |-> exc]

\* The dividend with the growth rate left as a fraction.
Dividend_NoPercent(eps, g) ==
    DecMul[DecMul[eps, DecAdd[seven, g]], four_point_four]

\* (eps * (seven + (g * one_hundred)) * four_point_four), the dividend.
Dividend(eps, g) ==
    DecMul[DecMul[eps, DecAdd[seven, DecMul[g, one_hundred]]], four_point_four]

\* calculate_intrinsic_value rejecting only negative eps and g (< for <=).
calculate_intrinsic_value_StrictGuard(eps, g, y) ==
    IF DecLt(eps, zero) \/ DecLt(g, zero) THEN Returned(None, FALSE)
    ELSE IF IsZero(y) THEN Raised("DivisionByZero")
    ELSE Returned(DecDiv[Dividend(eps, g), y], TRUE)

\* calculate_intrinsic_value without the test of eps and g.
calculate_intrinsic_value_NoGuard(eps, g, y) ==
    IF IsZero(y) THEN Raised("DivisionByZero")
    ELSE Returned(DecDiv[Dividend(eps, g), y], TRUE)

\* calculate_intrinsic_value on Decimals: None when eps <= 0 or g <= 0;
\* otherwise the quotient, and decimal.DivisionByZero when y is zero.
calculate_intrinsic_value(eps, g, y) ==
    IF DecLe(eps, zero) \/ DecLe(g, zero) THEN Returned(None, FALSE)
    ELSE IF eps # None /\ g # None /\ y # None
         THEN IF IsZero(y) THEN Raised("DivisionByZero")
              ELSE Returned(DecDiv[Dividend(eps, g), y], TRUE)
    ELSE Returned(None, FALSE)

\* margin_of_safety_value = intrinsic_value * Decimal('0.8').
margin_of_safety(intrinsic_value) == DecMul[intrinsic_value, Dec(0, <<8>>, -1)]

\* stock_price <= margin_of_safety_value.
is_worth_buying_OrEqual(stock_price, margin_of_safety_value) ==
    DecLe(stock_price, margin_of_safety_value)

\* is_worth_buying = stock_price < margin_of_safety_value.
is_worth_buying(stock_price, margin_of_safety_value) ==
    DecLt(stock_price, margin_of_safety_value)

\* The two recommendations swapped.
recommendation_Inverted(worth) == IF worth THEN "Don't Buy" ELSE "Buy"

recommendation(worth) == IF worth THEN "Buy" ELSE "Don't Buy"

-----------------------------------------------------------------------------
(* Fetcher and Extractor.  A page is what safe_request and select_one give *)
(* for one URL and selector: the request failed, no element matched, or    *)
(* the matched element's text.                                             *)

Failed == [status |-> "failed"]
NoMatch == [status |-> "nomatch"]
Element(text) == [status |-> "text", text |-> text]

\* get_stock_price: the parsed text of an element that exists and has text.
get_stock_price(page) ==
    IF page.status = "failed" THEN None
    ELSE IF page.status = "text" /\ page.text # <<>>
         THEN parse_stock_price(page.text)
    ELSE None

\* get_financial_data: parse_float of the element's text, when it exists.
get_financial_data(page) ==
    IF page.status = "failed" THEN None
    ELSE IF page.status = "text" THEN parse_float(page.text)
    ELSE None

\* read_tickers_from_json: None on FileNotFoundError and JSONDecodeError,
\* otherwise whatever json.load gives (null is None).
read_tickers_from_json(f) ==
    IF f.kind \in {"missing", "empty", "malformed", "null"} THEN None
    ELSE f

-----------------------------------------------------------------------------
(* Inputs.                                                                 *)

MaxTickers == 2
MaxLen == 4
MaxCoef == 3

Watchlist == <<"AAA", "BBB", "CCC", "DDD">>

\* Ticker lists: the first n symbols of the watchlist, and one list that
\* names a symbol twice.
TickerLists ==
    {[i \in 1..n |-> Watchlist[((i - 1) % Len(Watchlist)) + 1]] : n \in 0..MaxTickers}
    \cup {<<"AAA", "AAA">>}

\* tickers.json: absent, zero bytes, not JSON, the JSON null, a JSON number,
\* or a JSON array of strings.
Files ==
    {[kind |-> k] : k \in {"missing", "empty", "malformed", "null", "number"}}
    \cup {[kind |-> "array", items |-> l] : l \in TickerLists}

NA == <<"N", "/", "A">>

PricePages ==
    {Failed, NoMatch, Element(<<>>), Element(NA), Element(<<"2", "0">>),
     Element(<<"2", "7", ".", "2">>), Element(<<"3", "0">>)}

EpsPages == {Failed, NoMatch, Element(NA), Element(<<"2", "0", "0">>), Element(<<"-", "5", "%">>)}

GrowthPages == {Failed, NoMatch, Element(NA), Element(<<"1", "0", ".", "0", "%">>), Element(<<"0", "%">>)}

YieldPages ==
    {Failed, NoMatch, Element(NA), Element(<<"4", "4", "0", "%">>),
     Element(<<"3", "0", "0", "%">>), Element(<<"0", "%">>)}

Alphabet == {"0", "1", ".", ",", "%", "-", " "}

\* A percent text with one digit more than the context precision keeps.
LongPercent == [i \in 1..(Prec + 1) |-> DigitChars[(i % 10) + 1]] \o <<"%">>

\* Every text over the alphabet up to MaxLen characters, and four longer
\* percent texts.
Texts ==
    UNION {[1..n -> Alphabet] : n \in 0..MaxLen}
    \cup {<<"1", "2", ".", "5", "%">>, <<"1", ",", "0", "0", "0", "%">>,
          <<"1", ",", "2", "3", "4", ".", "5", "0", "%">>, LongPercent}

\* Decimals with a coefficient up to MaxCoef, and the yield 4.4.
CalcValues ==
    {Dec(sg, DigitsOf[c], e) : sg \in {0, 1}, c \in 0..MaxCoef, e \in -2..0}
    \cup {four_point_four}

CalcPrices == {DecInt(20), Dec(0, <<2, 7, 2>>, -1), DecInt(30)}

-----------------------------------------------------------------------------
(* main                                                                    *)

VARIABLES
    pc,                      \* where main is
    file,                    \* the content of tickers.json
    tickers,                 \* main's tickers
    idx,                     \* position of the for loop in tickers
    stock_price, eps, g, y,  \* main's locals
    intrinsic_value, margin_of_safety_value,
    worth_buying,            \* main's worth_buying
    report,                  \* the summary printed after the loop
    logged,                  \* run-level messages written to the log
    started,                 \* per list position: the stages started, in order
    quote,                   \* per list position: what each fetch stage gave
    outcome,                 \* per list position: how its processing ended
    arg,                     \* the text a parser is applied to
    ret                      \* what the last call returned

vars == <<pc, file, tickers, idx, stock_price, eps, g, y, intrinsic_value,
          margin_of_safety_value, worth_buying, report, logged, started, quote,
          outcome, arg, ret>>

Pipeline == <<"price", "eps", "growth", "yield", "evaluate">>

Unbound == [kind |-> "unbound"]
NotPrinted == [kind |-> "not printed"]
NoCall == [kind |-> "no call"]

Log(level, msg) == [level |-> level, msg |-> msg]

\* What a fetch stage gave: nothing, or a Decimal that is positive or not.
Class(v) == IF v = None THEN "missing" ELSE IF DecLe(v, zero) THEN "nonpos" ELSE "pos"

NoQuote == [price |-> "unfetched", eps |-> "unfetched", growth |-> "unfetched", yield |-> "unfetched"]

Items == IF tickers = None \/ tickers.kind # "array" THEN <<>> ELSE tickers.items

Init ==
    /\ pc = "start"
    /\ file \in Files
    /\ tickers = Unbound
    /\ idx = 0
    /\ stock_price = Unbound /\ eps = Unbound /\ g = Unbound /\ y = Unbound
    /\ intrinsic_value = Unbound /\ margin_of_safety_value = Unbound
    /\ worth_buying = <<>>
    /\ report = NotPrinted
    /\ logged = {}
    /\ started = <<>> /\ quote = <<>> /\ outcome = <<>>
    /\ arg = <<>>
    /\ ret = NoCall

\* Lines 122-133: read the ticker list; return when it is None; the outer
\* except (line 189) catches len() of a value that has no length.
Start ==
    /\ pc = "start"
    /\ LET t == read_tickers_from_json(file)
       IN  /\ tickers' = t
           /\ IF t = None
              THEN /\ logged' = logged \cup
                        (IF file.kind = "null" THEN {}
                         ELSE {Log("ERROR", "Error reading from JSON file")})
                        \cup {Log("ERROR", "No tickers to process.")}
                   /\ pc' = "done"
                   /\ UNCHANGED <<idx, started, quote, outcome>>
              ELSE IF t.kind # "array"
              THEN /\ logged' = logged \cup {Log("ERROR", "An unexpected error occurred")}
                   /\ pc' = "done"
                   /\ UNCHANGED <<idx, started, quote, outcome>>
              ELSE /\ logged' = logged \cup {Log("INFO", "Processing tickers...")}
                   /\ idx' = 1
                   /\ pc' = IF Len(t.items) = 0 THEN "summary" ELSE "price"
                   /\ started' = [i \in 1..Len(t.items) |-> <<>>]
                   /\ quote' = [i \in 1..Len(t.items) |-> NoQuote]
                   /\ outcome' = [i \in 1..Len(t.items) |-> "pending"]
    /\ worth_buying' = <<>>
    /\ UNCHANGED <<file, stock_price, eps, g, y, intrinsic_value,
                   margin_of_safety_value, report, arg, ret>>

\* The for loop takes the next ticker, or ends.
NextTicker == [pc |-> IF idx + 1 > Len(Items) THEN "summary" ELSE "price", idx |-> idx + 1]

\* A stage that gave None ends the whole run instead of the ticker.
AfterStage_Abort(value, next) ==
    IF value = None THEN [pc |-> "done", idx |-> idx] ELSE [pc |-> next, idx |-> idx]

\* No `continue`: the next stage runs whatever the stage gave.
AfterStage_NoContinue(value, next) == [pc |-> next, idx |-> idx]

\* After a fetch stage: `continue` when it gave None, otherwise the next stage
\* of the same ticker.
AfterStage(value, next) == IF value = None THEN NextTicker ELSE [pc |-> next, idx |-> idx]

\* Lines 137-148: the price, parsed by get_stock_price and again by main.
FetchPrice ==
    /\ pc = "price"
    /\ \E page \in PricePages :
       \E first \in {get_stock_price(page)} :
       \E price \in {IF first = None THEN None ELSE parse_stock_price_decimal(first)} :
         LET to == AfterStage(price, "eps")
         IN  /\ stock_price' = price
             /\ pc' = to.pc
             /\ idx' = to.idx
             /\ quote' = [quote EXCEPT ![idx].price = Class(price)]
             /\ outcome' = [outcome EXCEPT ![idx] = IF price = None THEN "skipped" ELSE @]
    /\ started' = [started EXCEPT ![idx] = Append(@, "price")]
    /\ UNCHANGED <<file, tickers, eps, g, y, intrinsic_value, margin_of_safety_value,
                   worth_buying, report, logged, arg, ret>>

\* Lines 149-153.
FetchEps ==
    /\ pc = "eps"
    /\ \E page \in EpsPages :
       \E v \in {get_financial_data(page)} :
         LET to == AfterStage(v, "growth")
         IN  /\ eps' = v
             /\ pc' = to.pc
             /\ idx' = to.idx
             /\ quote' = [quote EXCEPT ![idx].eps = Class(v)]
             /\ outcome' = [outcome EXCEPT ![idx] = IF v = None THEN "skipped" ELSE @]
    /\ started' = [started EXCEPT ![idx] = Append(@, "eps")]
    /\ UNCHANGED <<file, tickers, stock_price, g, y, intrinsic_value,
                   margin_of_safety_value, worth_buying, report, logged, arg, ret>>

\* Lines 155-159.
FetchGrowth ==
    /\ pc = "growth"
    /\ \E page \in GrowthPages :
       \E v \in {get_financial_data(page)} :
         LET to == AfterStage(v, "yield")
         IN  /\ g' = v
             /\ pc' = to.pc
             /\ idx' = to.idx
             /\ quote' = [quote EXCEPT ![idx].growth = Class(v)]
             /\ outcome' = [outcome EXCEPT ![idx] = IF v = None THEN "skipped" ELSE @]
    /\ started' = [started EXCEPT ![idx] = Append(@, "growth")]
    /\ UNCHANGED <<file, tickers, stock_price, eps, y, intrinsic_value,
                   margin_of_safety_value, worth_buying, report, logged, arg, ret>>

\* Lines 161-165: the bond yield, fetched again for every ticker.
FetchYield ==
    /\ pc = "yield"
    /\ \E page \in YieldPages :
       \E v \in {get_financial_data(page)} :
         LET to == AfterStage(v, "evaluate")
         IN  /\ y' = v
             /\ pc' = to.pc
             /\ idx' = to.idx
             /\ quote' = [quote EXCEPT ![idx].yield = Class(v)]
             /\ outcome' = [outcome EXCEPT ![idx] = IF v = None THEN "skipped" ELSE @]
    /\ started' = [started EXCEPT ![idx] = Append(@, "yield")]
    /\ UNCHANGED <<file, tickers, stock_price, eps, g, intrinsic_value,
                   margin_of_safety_value, worth_buying, report, logged, arg, ret>>

\* Lines 167-179: the valuation, the printed line, the append; an exception
\* raised on the way is caught by the loop body's except and only logged.
Evaluate ==
    /\ pc = "evaluate"
    /\ \E r \in {calculate_intrinsic_value(eps, g, y)} :
           /\ ret' = r
           /\ IF r.kind = "raise"
              THEN /\ outcome' = [outcome EXCEPT ![idx] = "raised"]
                   /\ UNCHANGED <<intrinsic_value, margin_of_safety_value, worth_buying>>
              ELSE IF r.value = None
              THEN /\ intrinsic_value' = None
                   /\ outcome' = [outcome EXCEPT ![idx] = "no value"]
                   /\ UNCHANGED <<margin_of_safety_value, worth_buying>>
              ELSE \E mos \in {margin_of_safety(r.value)} :
                   \E worth \in {is_worth_buying(stock_price, mos)} :
                       /\ intrinsic_value' = r.value
                       /\ margin_of_safety_value' = mos
                       /\ outcome' = [outcome EXCEPT ![idx] = recommendation(worth)]
                       /\ worth_buying' = IF worth THEN Append(worth_buying, Items[idx])
                                          ELSE worth_buying
    /\ pc' = NextTicker.pc
    /\ idx' = NextTicker.idx
    /\ started' = [started EXCEPT ![idx] = Append(@, "evaluate")]
    /\ UNCHANGED <<file, tickers, stock_price, eps, g, y, report, logged, quote, arg>>

\* Lines 181-187: the worth-buying list, or the "none found" message.
Summary ==
    /\ pc = "summary"
    /\ report' = IF worth_buying # <<>>
                 THEN [kind |-> "list", tickers |-> worth_buying]
                 ELSE [kind |-> "none found"]
    /\ pc' = "done"
    /\ UNCHANGED <<file, tickers, idx, stock_price, eps, g, y, intrinsic_value,
                   margin_of_safety_value, worth_buying, logged, started, quote,
                   outcome, arg, ret>>

Next ==
    \/ Start
    \/ FetchPrice
    \/ FetchEps
    \/ FetchGrowth
    \/ FetchYield
    \/ Evaluate
    \/ Summary

Spec == Init /\ [][Next]_vars

\* main is one sequential thread and every request it makes has a timeout
\* (line 38): it takes its next step whenever it has one.
FairSpec == Init /\ [][Next]_vars /\ WF_vars(Next)

-----------------------------------------------------------------------------
(* The valuation on its own: main at line 167 for a single ticker, with any *)
(* price and any eps, g and y of CalcValues.                                *)

InitCalc ==
    /\ pc = "evaluate"
    /\ file = [kind |-> "array", items |-> <<"AAA">>]
    /\ tickers = file
    /\ idx = 1
    /\ stock_price \in CalcPrices
    /\ eps \in CalcValues /\ g \in CalcValues /\ y \in CalcValues
    /\ intrinsic_value = Unbound /\ margin_of_safety_value = Unbound
    /\ worth_buying = <<>>
    /\ report = NotPrinted
    /\ logged = {Log("INFO", "Processing tickers...")}
    /\ started = <<SubSeq(Pipeline, 1, 4)>>
    /\ quote = <<[price |-> Class(stock_price), eps |-> Class(eps),
                  growth |-> Class(g), yield |-> Class(y)]>>
    /\ outcome = <<"pending">>
    /\ arg = <<>>
    /\ ret = NoCall

NextCalc == Evaluate \/ Summary

CalcSpec == InitCalc /\ [][NextCalc]_vars

-----------------------------------------------------------------------------
(* The ratio parser on its own: parse_float applied to any text of Texts.  *)

InitParse ==
    /\ pc = "parse"
    /\ file = [kind |-> "missing"]
    /\ tickers = Unbound
    /\ idx = 0
    /\ stock_price = Unbound /\ eps = Unbound /\ g = Unbound /\ y = Unbound
    /\ intrinsic_value = Unbound /\ margin_of_safety_value = Unbound
    /\ worth_buying = <<>>
    /\ report = NotPrinted
    /\ logged = {}
    /\ started = <<>> /\ quote = <<>> /\ outcome = <<>>
    /\ arg \in Texts
    /\ ret = NoCall

CallParseFloat ==
    /\ pc = "parse"
    /\ ret = NoCall
    /\ ret' = [kind |-> "return", value |-> parse_float(arg)]
    /\ pc' = "parsed"
    /\ UNCHANGED <<file, tickers, idx, stock_price, eps, g, y, intrinsic_value,
                   margin_of_safety_value, worth_buying, report, logged, started,
                   quote, outcome, arg>>

NextParse == CallParseFloat

ParseSpec == InitParse /\ [][NextParse]_vars

-----------------------------------------------------------------------------
(* Exact arithmetic used to state the properties: sums and products of     *)
(* decimals without the context rounding.                                  *)

Abs(d) == [d EXCEPT !.sign = 0]

\* The product without the context rounding (the mathematical product).
ExactMul(a, b) ==
    Dec((a.sign + b.sign) % 2, MulDigits[a.dig, Val[b.dig]], a.exp + b.exp)

Front(ds) == SubSeq(ds, 1, Len(ds) - 1)

\* a[1..k] + b[1..k] + c for digit sequences a, b of the same length and a carry c.
RECURSIVE AddDigitsCarry(_, _, _, _)
AddDigitsCarry(a, b, k, c) ==
    IF k = 0 THEN (IF c = 0 THEN <<>> ELSE <<c>>)
    ELSE Append(AddDigitsCarry(a, b, k - 1, (a[k] + b[k] + c) \div 10), (a[k] + b[k] + c) % 10)

\* The sum of two non-negative decimals.
ExactAdd(a, b) ==
    LET e  == IF a.exp < b.exp THEN a.exp ELSE b.exp
        da == a.dig \o Zeros(a.exp - e)
        db == b.dig \o Zeros(b.exp - e)
        n  == IF Len(da) < Len(db) THEN Len(db) ELSE Len(da)
    IN  Dec(0, DropLeadingZeros[AddDigitsCarry(Zeros(n - Len(da)) \o da,
                                               Zeros(n - Len(db)) \o db, n, 0)], e)

SameSign(v, n, d) == IsZero(v) \/ v.sign = (n.sign + d.sign) % 2

\* v * d = n exactly.
IsQuotient(v, n, d) == DecEq(ExactMul(v, d), n)

\* v is within half a unit of its last digit of n / d:
\* 2 * | |v| * |d| - |n| | <= |d| * 10^v.exp.
WithinHalfUlp(v, n, d) ==
    LET twoA == ExactMul(ExactMul(Abs(v), Abs(d)), DecInt(2))
        twoB == ExactMul(Abs(n), DecInt(2))
        h    == Dec(0, d.dig, d.exp + v.exp)
    IN  /\ SameSign(v, n, d)
        /\ CmpAbs[twoA, ExactAdd(twoB, h)] <= 0
        /\ CmpAbs[twoB, ExactAdd(twoA, h)] <= 0

\* v is n / d rounded to Prec significant digits.
IsRoundedQuotient(v, n, d) ==
    /\ Len(v.dig) <= Prec
    /\ WithinHalfUlp(v, n, d)
    /\ Len(v.dig) < Prec => IsQuotient(v, n, d)

\* eps * (7 + growth * 100) * 4.4 in integer arithmetic.
FormulaDividend(e, gr) ==
    LET sh == IF gr.exp + 2 < 0 THEN gr.exp + 2 ELSE 0
    IN  FromInt[SignedVal(e) * (7 * Pow10(-sh) + SignedVal(gr) * Pow10(gr.exp + 2 - sh)) * 44,
                e.exp + sh - 1]

ZeroPointEight == Dec(0, <<8>>, -1)

Produced(i) == outcome[i] \in {"Buy", "Don't Buy"}

Evaluated == ret # NoCall /\ pc \in {"summary", "done"}

ValueReturned == Evaluated /\ ret.kind = "return" /\ ret.value # None

-----------------------------------------------------------------------------
(* Properties of the valuation (CalcSpec).                                 *)

C4_BuyIffBelowMargin ==
    \A i \in DOMAIN outcome :
        (i = idx - 1 /\ pc \in {"price", "summary", "done"} /\ Produced(i)) =>
            /\ outcome[i] = "Buy" <=> DecCmp[stock_price, margin_of_safety_value] = -1
            /\ outcome[i] = "Don't Buy" <=> DecCmp[stock_price, margin_of_safety_value] >= 0
            /\ DecEq(margin_of_safety_value, Dec(0, <<2, 7, 2>>, -1)) =>
                 /\ DecEq(stock_price, DecInt(20)) => outcome[i] = "Buy"
                 /\ DecEq(stock_price, DecInt(30)) => outcome[i] = "Don't Buy"

\* The price equals the margin of safety and the line says "Don't Buy".
C4_Witness ==
    /\ pc = "summary"
    /\ outcome[1] = "Don't Buy"
    /\ DecEq(stock_price, margin_of_safety_value)
    /\ DecEq(margin_of_safety_value, Dec(0, <<2, 7, 2>>, -1))

\* C5: calculate_intrinsic_value returns nothing whenever eps <= 0 or
\* growth <= 0, for every yield (zero and negative too), without dividing.
C5_NonPositiveGivesNothing ==
    (Evaluated /\ (DecLe(eps, zero) \/ DecLe(g, zero))) =>
        /\ ret.kind = "return"
        /\ ret.value = None
        /\ ~ret.divided

\* A non-positive eps with a zero yield.
C5_Witness ==
    /\ Evaluated
    /\ DecLe(eps, zero)
    /\ DecLt(zero, g)
    /\ IsZero(y)
    /\ ret.value = None

\* C7 as stated: calculate_intrinsic_value returns a decimal or nothing for
\* every decimal eps, growth and yield, and never raises.
C7_NeverRaises == Evaluated => ret.kind = "return"

-----------------------------------------------------------------------------
(* Properties of main (Spec, FairSpec).                                    *)

IsPrefix(a, b) == Len(a) <= Len(b) /\ SubSeq(b, 1, Len(a)) = a

Failures == {"skipped", "raised", "no value"}

AnyFailure == \E i \in DOMAIN outcome : outcome[i] \in Failures

AllProcessed ==
    \A j \in DOMAIN outcome : outcome[j] # "pending" /\ Len(started[j]) > 0

\* C1: whatever goes wrong for a ticker (a failed fetch, no match, a parse
\* failure, a non-positive eps or growth, an exception in the loop body), the
\* run goes on: every ticker of the list is processed and the summary is printed.
C1_FailureIsolation ==
    AnyFailure ~> (pc = "done" /\ report # NotPrinted /\ AllProcessed)

\* The first ticker raised in the loop body, the second was reported as a buy
\* and the summary lists it.
C1_Witness ==
    /\ pc = "done"
    /\ Len(outcome) = 2
    /\ outcome[1] = "raised"
    /\ outcome[2] = "Buy"
    /\ report = [kind |-> "list", tickers |-> <<Items[2]>>]

Complete(q) ==
    /\ q.price \in {"pos", "nonpos"}
    /\ q.eps = "pos"
    /\ q.growth = "pos"
    /\ q.yield \in {"pos", "nonpos"}

BuyPositions == {i \in DOMAIN outcome : outcome[i] = "Buy"}

\* C2: a result is produced for a ticker only if price, eps, growth and yield
\* were all obtained and eps > 0 and growth > 0; a ticker without that has no
\* result and no place in the worth-buying list.
C2_ResultNeedsCompleteQuote ==
    /\ \A i \in DOMAIN outcome : Produced(i) => Complete(quote[i])
    /\ \A i \in DOMAIN outcome : ~Complete(quote[i]) => i \notin BuyPositions
    /\ Len(worth_buying) = Cardinality(BuyPositions)
    /\ \A k \in 1..Len(worth_buying) :
         \E i \in BuyPositions : Items[i] = worth_buying[k] /\ Complete(quote[i])

\* All four values were obtained for the first ticker but its eps is not
\* positive: no result; the second ticker has a result.
C2_Witness ==
    /\ Len(outcome) = 2
    /\ quote[1].eps = "nonpos"
    /\ quote[1].yield = "pos"
    /\ outcome[1] = "no value"
    /\ Produced(2)

Got(q, k) == IF k = 1 THEN q.price ELSE IF k = 2 THEN q.eps
             ELSE IF k = 3 THEN q.growth ELSE q.yield

\* C9: per ticker the stages run in the order price, eps, growth, yield,
\* evaluation, each at most once; a stage starts only if every earlier one
\* succeeded, the first failing stage ends the ticker, and the tickers are
\* taken in list order.
C9_LinearPipeline ==
    \A i \in DOMAIN started :
        /\ IsPrefix(started[i], Pipeline)
        /\ \A k \in 1..4 : (Got(quote[i], k) # "unfetched") <=> (k <= Len(started[i]))
        /\ \A k \in 2..Len(started[i]) : Got(quote[i], k - 1) \in {"pos", "nonpos"}
        /\ \A k \in 1..4 :
             Got(quote[i], k) = "missing" => (Len(started[i]) = k /\ outcome[i] = "skipped")
        /\ (outcome[i] \in {"raised", "no value", "Buy", "Don't Buy"})
             <=> (started[i] = Pipeline)
        /\ (i > 1 /\ started[i] # <<>>) => outcome[i - 1] # "pending"
        /\ (outcome[i] # "pending") => idx > i

\* The first ticker stopped at a failed eps stage and the second ticker is
\* being processed.
C9_Witness ==
    /\ Len(started) = 2
    /\ started[1] = <<"price", "eps">>
    /\ quote[1].eps = "missing"
    /\ started[2] = <<"price", "eps", "growth">>

\* The tickers of the first n list positions whose line said "Buy", in order.
RECURSIVE BuysUpTo(_)
BuysUpTo(n) ==
    IF n = 0 THEN <<>>
    ELSE IF outcome[n] = "Buy" THEN Append(BuysUpTo(n - 1), Items[n])
    ELSE BuysUpTo(n - 1)

\* C10: the worth-buying list is append-only and is at every point the processed
\* tickers recommended "Buy", in list order; the summary after the loop is that
\* list when it is non-empty and the "none found" message when it is empty.
C10_WorthBuyingList ==
    /\ [](/\ worth_buying = BuysUpTo(Len(outcome))
          /\ (pc # "done") => report = NotPrinted
          /\ (pc = "done" /\ tickers # None /\ tickers.kind = "array") =>
               report = IF worth_buying = <<>> THEN [kind |-> "none found"]
                        ELSE [kind |-> "list", tickers |-> worth_buying])
    /\ [][IsPrefix(worth_buying, worth_buying')]_vars

\* "Don't Buy" for the first ticker, "Buy" for the second, and the summary
\* lists the second alone.
C10_Witness ==
    /\ pc = "done"
    /\ outcome = <<"Don't Buy", "Buy">>
    /\ report = [kind |-> "list", tickers |-> <<"BBB">>]

ErrorLogged == \E m \in logged : m.level = "ERROR"

\* C6 as stated: a missing, invalid or empty tickers.json (zero bytes or an empty
\* array) ends the run with a logged error, no ticker processed and nothing
\* printed after the loop.
C6_EmptyOrMissingNoReport ==
    (pc = "done" /\ (\/ file.kind \in {"missing", "malformed", "empty"}
                     \/ (file.kind = "array" /\ file.items = <<>>))) =>
        /\ ErrorLogged
        /\ report = NotPrinted
        /\ \A i \in DOMAIN started : started[i] = <<>>

-----------------------------------------------------------------------------
(* Properties of parse_float (ParseSpec).                                  *)

Count(text, chars) == Cardinality({i \in 1..Len(text) : text[i] \in chars})

DigitSet == {DigitChars[i] : i \in 1..10}

\* The text between the first and the last character that is not in chars.
Between(text, chars) ==
    LET keep == {i \in 1..Len(text) : text[i] \notin chars}
    IN  IF keep = {} THEN <<>>
        ELSE SubSeq(text, CHOOSE i \in keep : \A j \in keep : i <= j,
                          CHOOSE i \in keep : \A j \in keep : j <= i)

\* An optionally signed numeral: digits with at most one point, at least one digit.
IsNumeral(text) ==
    LET body == IF Len(text) > 0 /\ text[1] \in {"-", "+"} THEN Tail(text) ELSE text
    IN  /\ \A i \in 1..Len(body) : body[i] \in DigitSet \cup {"."}
        /\ Count(body, {"."}) <= 1
        /\ Count(body, DigitSet) >= 1

\* The number a text denotes, reading its digits, its point and its sign only.
NumberOf(text) ==
    LET points == {i \in 1..Len(text) : text[i] = "."}
        scale  == IF points = {} THEN 0
                  ELSE Count(SubSeq(text, CHOOSE i \in points : TRUE, Len(text)), DigitSet)
        digits == SelectSeq(text, LAMBDA c : c \in DigitSet)
    IN  Dec(IF Count(text, {"-"}) > 0 THEN 1 ELSE 0,
            DropLeadingZeros[[i \in 1..Len(digits) |-> DigitVal(digits[i])]], -scale)

\* The number of digits of a number from its first non-zero digit on.
SignificantDigits(number) == Len(number.dig)

\* value = number / 100 exactly.
IsHundredth(value, number) == value # None /\ DecEq(ExactMul(value, DecInt(100)), number)

\* value = number / 100, exactly when the number has at most Prec significant
\* digits and rounded to Prec significant digits otherwise.
IsHundredthInContext(value, number) ==
    /\ value # None
    /\ IsRoundedQuotient(value, number, DecInt(100))
    /\ SignificantDigits(number) <= Prec => IsHundredth(value, number)

\* What parse_float leaves for Decimal: no commas, no percent signs at either
\* end, no whitespace around.
Core(text) ==
    Between(Between(SelectSeq(text, LAMBDA c : c # ","), {"%"}), Whitespace)

\* A decimal number with thousands separators and an optional trailing percent
\* sign, read strictly: an optional minus, digits in groups of three after the
\* first comma, an optional point followed by digits, at most one percent sign.
StrictPercentNumber(text) ==
    LET t1     == IF Len(text) > 0 /\ text[Len(text)] = "%" THEN Front(text) ELSE text
        t2     == IF Len(t1) > 0 /\ t1[1] = "-" THEN Tail(t1) ELSE t1
        points == {i \in 1..Len(t2) : t2[i] = "."}
        p      == IF points = {} THEN Len(t2) + 1 ELSE CHOOSE i \in points : TRUE
        int    == SubSeq(t2, 1, p - 1)
        frac   == SubSeq(t2, p + 1, Len(t2))
    IN  /\ Cardinality(points) <= 1
        /\ Len(int) > 0
        /\ int[1] \in DigitSet
        /\ \A i \in 1..Len(int) :
             IF Count(int, {","}) > 0 /\ (Len(int) - i + 1) % 4 = 0
             THEN int[i] = "," ELSE int[i] \in DigitSet
        /\ points # {} => Len(frac) > 0
        /\ \A i \in 1..Len(frac) : frac[i] \in DigitSet

\* The same read generously: whitespace and commas anywhere are ignored, what
\* is left is an optionally signed numeral with at most one trailing percent sign.
GenerousPercentNumber(text) ==
    LET t0 == SelectSeq(text, LAMBDA c : c \notin Whitespace \cup {","})
        t1 == IF Len(t0) > 0 /\ t0[Len(t0)] = "%" THEN Front(t0) ELSE t0
    IN  IsNumeral(t1)

Parsed == ret # NoCall /\ pc = "parsed"

\* C8 as stated: a decimal number with optional thousands separators and a
\* trailing percent sign gives exactly the number divided by 100; every other
\* text gives nothing.
C8_NumberOrNothing ==
    Parsed =>
        /\ StrictPercentNumber(arg) => IsHundredth(ret.value, NumberOf(arg))
        /\ ~GenerousPercentNumber(arg) => ret.value = None

\* C8 amended: parse_float drops every comma and every percent sign at either
\* end of the text; when the rest, without the whitespace around it, is an
\* optionally signed numeral it returns that number divided by 100, exactly
\* when the number has at most 28 significant digits ("12.5%" gives 0.125) and
\* rounded to 28 significant digits otherwise; on any other text it returns
\* nothing; it never raises.
C8_ParseFloat ==
    Parsed =>
        /\ ret.kind = "return"
        /\ IF IsNumeral(Core(arg)) THEN IsHundredthInContext(ret.value, NumberOf(Core(arg)))
           ELSE ret.value = None
        /\ StrictPercentNumber(arg) => IsHundredthInContext(ret.value, NumberOf(arg))
        /\ arg = <<"1", "2", ".", "5", "%">> => DecEq(ret.value, Dec(0, <<1, 2, 5>>, -3))

\* A percent text with a thousands separator, parsed.
C8_Witness ==
    /\ Parsed
    /\ arg = <<"1", ",", "2", "3", "4", ".", "5", "0", "%">>
    /\ DecEq(ret.value, Dec(0, <<1, 2, 3, 4, 5>>, -3))

====
